---- MODULE Spec2Model ----
(***************************************************************************)
(* The correlation-matching request/response bridge of the Flask client:   *)
(* the three route handlers of app.py (index_papers, search, topn) and     *)
(* KafkaClient.produce / KafkaClient.consume_one of kafka_client.py,       *)
(* running as concurrent request threads against one broker.               *)
(*                                                                         *)
(* Time is counted in ticks of half a second.  Time passes only while a    *)
(* handler waits in consumer.poll() (at most the poll slice) or before a   *)
(* request arrives; local computation takes no time.                       *)
(***************************************************************************)
EXTENDS Integers, Sequences, FiniteSets, TLC

\* ------------------------------------------------------------------ bounds
\* The clock stops advancing at MaxNow ticks.
MaxNow == 4
\* Number of messages the backend (or anybody else) publishes on response topics.
MaxMsgs == 2

\* consumer.poll(timeout_ms=1000): the poll slice, in ticks (a tick is 500 ms,
\* so that a poll can end strictly inside a slice).
PollSlice == 2

\* retries=3 of the KafkaProducer: how often its sender transmits a record
\* again after a transient error.
Retries == 3
\* Ticks per second of time.time(): one second is one poll slice.
Seconds(n) == n * PollSlice

\* ----------------------------------------------------------- request threads
\* Two concurrent Flask request threads.
Calls == {"c1", "c2"}

Ops == {"index", "search", "topn"}

\* uuid.uuid4() values, one for each call.  Ids are only ever compared for
\* equality, and the backend may publish either of them at any time, so the
\* id of a call that is not in flight serves as a foreign id.
CorrIds == {"X", "Y"}
NoCid == "-"

\* ------------------------------------------------------------ text handling
\* Text is a sequence of one-character strings.
Whitespace == {" "}

Digits == <<"0", "1", "2", "3", "4", "5", "6", "7", "8", "9">>
DigitVal == [d \in {Digits[i] : i \in 1..10} |->
               (CHOOSE i \in 1..10 : Digits[i] = d) - 1]

RECURSIVE LStrip(_)
LStrip(s) == IF s # <<>> /\ Head(s) \in Whitespace THEN LStrip(Tail(s)) ELSE s

RECURSIVE RStrip(_)
RStrip(s) == IF s # <<>> /\ s[Len(s)] \in Whitespace
             THEN RStrip(SubSeq(s, 1, Len(s) - 1)) ELSE s

\* str.strip()
Strip(s) == RStrip(LStrip(s))

RECURSIVE DigitsValue(_)
DigitsValue(s) == IF s = <<>> THEN 0
                  ELSE 10 * DigitsValue(SubSeq(s, 1, Len(s) - 1)) + DigitVal[s[Len(s)]]

IsDigits(s) == s # <<>> /\ \A i \in 1..Len(s) : s[i] \in DOMAIN DigitVal

\* int(text): surrounding whitespace, an optional sign, one or more digits;
\* anything else raises ValueError (ok = FALSE).
ParseInt(s) ==
  LET t == Strip(s)
      signed == t # <<>> /\ Head(t) \in {"-", "+"}
      body == IF signed THEN Tail(t) ELSE t
  IN  IF IsDigits(body)
      THEN [ok |-> TRUE,
            val |-> IF signed /\ Head(t) = "-" THEN 0 - DigitsValue(body)
                    ELSE DigitsValue(body)]
      ELSE [ok |-> FALSE, val |-> 0]

\* A form field: absent from the form, or present with a text.
Absent == [present |-> FALSE, text |-> <<>>]
Text(s) == [present |-> TRUE, text |-> s]

\* request.form.get(name, "")
FormGet(f) == IF f.present THEN f.text ELSE <<>>

\* Form inputs enumerated per operation.
TextForms == {Absent, Text(<<" ">>), Text(<<"g">>)}
NForms == {Absent, Text(<<"a">>), Text(<<" ", "5">>), Text(<<"0">>), Text(<<"-", "3">>)}
Forms(o) == IF o = "topn" THEN NForms ELSE TextForms

\* ------------------------------------------------------------------ topics
\* os.getenv defaults of the topic names, per operation.
RequestTopic(o) == CASE o = "index" -> "search-request"
                     [] o = "search" -> "search-term-request"
                     [] o = "topn" -> "topn-request"
ResponseTopic(o) == CASE o = "index" -> "search-response"
                      [] o = "search" -> "search-term-response"
                      [] o = "topn" -> "topn-response"
RequestTopics == {RequestTopic(o) : o \in Ops}
ResponseTopics == {ResponseTopic(o) : o \in Ops}

\* ---------------------------------------------------------------- messages
\* A record on the wire: bytes that are JSON or not; when JSON, an object
\* (dict) or another JSON value; when an object, its correlation_id field
\* (NoCid: no such field) and the rest of its fields (payload).
Payloads == {"r1", "r2"}
Garbage == [json |-> FALSE, dict |-> FALSE, cid |-> NoCid, payload |-> "-"]
NonObject == [json |-> TRUE, dict |-> FALSE, cid |-> NoCid, payload |-> "-"]
Envelope(id, p) == [json |-> TRUE, dict |-> TRUE, cid |-> id, payload |-> p]
WireMessages == {Garbage, NonObject, Envelope(NoCid, "r1")}
                  \cup {Envelope(id, p) : id \in CorrIds, p \in Payloads}

\* value_deserializer: json.loads(b.decode("utf-8")) raises on bytes that are
\* not JSON; otherwise it yields the parsed value.
DeserializeRaises(b) == ~b.json
Deserialize(b) == [dict |-> b.dict, cid |-> b.cid, payload |-> b.payload]
NoMsg == [dict |-> FALSE, cid |-> NoCid, payload |-> "-"]

\* value_serializer: json.dumps(v).encode("utf-8") of the request dict.
Serialize(id, arg) == [json |-> TRUE, dict |-> TRUE, cid |-> id, arg |-> arg]

\* ------------------------------------------------------------------- state
VARIABLES
  now,        \* time.time(), in ticks
  env,        \* the KAFKA_RESPONSE_TIMEOUT environment variable (static)
  producer,   \* KafkaClient._producer: "None" or "created"
  producersMade, \* number of KafkaProducer objects constructed
  reqLog,     \* request topic |-> sequence of records published on it
  respLog,    \* response topic |-> sequence of records published on it
  offsets,    \* <<consumer group, topic>> |-> the group's read position
  call        \* per request thread: the handler's locals and history

vars == <<now, env, producer, producersMade, reqLog, respLog, offsets, call>>

\* KAFKA_RESPONSE_TIMEOUT as set in the environment (Absent: unset).
TimeoutEnv == {Absent, Text(<<"1">>), Text(<<"0">>), Text(<<"s">>)}

\* os.getenv("KAFKA_RESPONSE_TIMEOUT", "120")
GetenvTimeout(e) == IF e.present THEN e.text ELSE <<"1", "2", "0">>

InitCall ==
  [pc |-> "idle",          \* "idle", "produce", "new_producer", "send",
                           \* "consume", "poll", "done"
   op |-> "none",          \* which route handles the request
   form |-> Absent,        \* the form field of the request
   arg |-> 0,              \* n of the top-N request
   cid |-> NoCid,          \* correlation_id
   started |-> 0,          \* time.time() when the deadline was computed
   deadline |-> 0,
   pollEnd |-> 0,          \* when the poll in progress gives up waiting
   joinPos |-> -1,         \* log length when the consumer got its position
   delivered |-> <<>>,     \* records handed to this call by its polls
   ret |-> "pending",      \* consume_one: "matched", "None", "raised"
   retMsg |-> NoMsg,       \* the dict consume_one returned
   waited |-> 0,           \* time from the deadline's computation to the exit
   fault |-> "none",       \* the failure the environment injected, if any
   status |-> 0,           \* HTTP status of the response
   body |-> NoMsg,         \* JSON body of a 200 response
   attempts |-> 0,         \* the producer's retry count of the record in flight
   produceCalls |-> 0, consumeCalls |-> 0,
   opened |-> 0, closed |-> 0]

Init ==
  /\ now = 0
  /\ env \in TimeoutEnv
  /\ producer = "None"
  /\ producersMade = 0
  /\ reqLog = [t \in RequestTopics |-> <<>>]
  /\ respLog = [t \in ResponseTopics |-> <<>>]
  /\ offsets = <<>>
  /\ call = [c \in Calls |-> InitCall]

\* ----------------------------------------------------------------- helpers
UsedIds == {call[c].cid : c \in Calls} \ {NoCid}

Published == Len(respLog["search-response"]) + Len(respLog["search-term-response"])
               + Len(respLog["topn-response"])

\* Variant: every call joins the one group "flask-client".
SharedGroupId(id) == <<"flask-client", NoCid>>

\* group_id=f"{group_id}-{correlation_id}" with the default group_id
GroupId(id) == <<"flask-client", id>>

OffsetKey(c) == <<GroupId(call[c].cid), ResponseTopic(call[c].op)>>

Log(c) == respLog[ResponseTopic(call[c].op)]

\* Variant: auto_offset_reset="earliest".
StartEarliest(log) == 0

\* auto_offset_reset="latest": where a group without a position starts
StartPosition(log) == Len(log)

\* Records published beyond the position of c's consumer group.
Available(c) == Len(Log(c)) - offsets[OffsetKey(c)]

\* int(request.form.get("n", 10))
TopnArg(f) == IF f.present THEN ParseInt(f.text) ELSE [ok |-> TRUE, val |-> 10]

\* Variant: search does not test its term.
ValidationErrorNoTermTest(o, f) ==
  CASE o = "index" -> Strip(FormGet(f)) = <<>>
    [] o = "search" -> FALSE
    [] o = "topn" -> ~TopnArg(f).ok

\* The handlers' early returns with status 400.
ValidationError(o, f) ==
  CASE o = "index" -> Strip(FormGet(f)) = <<>>
    [] o = "search" -> Strip(FormGet(f)) = <<>>
    [] o = "topn" -> ~TopnArg(f).ok

\* Variant: any dict is taken.
MatchesAnyDict(msg, id) == msg.dict

\* Variant: any dict that carries a correlation_id is taken.
MatchesAnyCorrelated(msg, id) == msg.dict /\ msg.cid # NoCid

\* isinstance(msg, dict) and msg.get("correlation_id") == correlation_id
Matches(msg, id) == msg.dict /\ msg.cid = id

\* Variant: the loops run to the end of the batch and the last match is kept.
LastMatch(batch, id) ==
  IF \E i \in 1..Len(batch) : Matches(batch[i], id)
  THEN CHOOSE i \in 1..Len(batch) :
         /\ Matches(batch[i], id)
         /\ \A j \in (i + 1)..Len(batch) : ~Matches(batch[j], id)
  ELSE 0

\* Variant: only the first record of a batch is examined.
HeadMatch(batch, id) == IF Matches(batch[1], id) THEN 1 ELSE 0

\* The first record of a batch that matches, 0 when none does (the two for
\* loops with the return inside).
FirstMatch(batch, id) ==
  IF \E i \in 1..Len(batch) : Matches(batch[i], id)
  THEN CHOOSE i \in 1..Len(batch) :
         /\ Matches(batch[i], id)
         /\ \A j \in 1..(i - 1) : ~Matches(batch[j], id)
  ELSE 0

\* Variant: the loop stops when less than a poll slice is left.
KeepPollingWholeSlice(t, d) == t + PollSlice < d

\* Variant: while True, the loop is left on a match only.
KeepPollingAlways(t, d) == TRUE

\* while time.time() < deadline
KeepPolling(t, d) == t < d

\* timeout_ms=1000 of consumer.poll: how long a poll waits for records
PollWait == PollSlice

\* Variant: produce logs the error and returns.
OnSendErrorReturn == "return"

\* except KafkaError ... raise, in produce
OnSendError == "raise"

\* Variant: the loop swallows what poll raises and goes on.
OnPollErrorContinue == "continue"

\* consume_one has no except clause: what poll raises leaves consume_one
OnPollError == "raise"

\* Variant: the consumer is closed on return only, not when poll raises.
ClosesOnReturnOnly(outcome) == outcome # "raised"

\* finally: consumer.close() runs for every way out of the try block
FinallyCloses(outcome) == TRUE

Finish(c, st, b) == [call[c] EXCEPT !.pc = "done", !.status = st, !.body = b]

\* ----------------------------------------------------------------- actions
\* A POST request arrives at one of the three routes: validation, then the
\* correlation id (uuid4: a value no other call holds) and the message dict.
Request(c, o, f) ==
  /\ call[c].pc = "idle"
  /\ IF ValidationError(o, f)
     THEN call' = [call EXCEPT ![c] =
                     [Finish(c, 400, NoMsg) EXCEPT !.op = o, !.form = f]]
     ELSE \E id \in CorrIds \ UsedIds :
            call' = [call EXCEPT ![c] =
                       [@ EXCEPT !.pc = "produce", !.op = o, !.form = f, !.cid = id,
                                 !.arg = IF o = "topn" THEN TopnArg(f).val ELSE 0]]
  /\ UNCHANGED <<now, env, producer, producersMade, reqLog, respLog, offsets>>

\* kafka.produce(...) is entered; _get_producer tests self._producer is None.
GetProducer(c) ==
  /\ call[c].pc = "produce"
  /\ call' = [call EXCEPT ![c].produceCalls = @ + 1,
                          ![c].pc = IF producer = "None" THEN "new_producer" ELSE "send"]
  /\ UNCHANGED <<now, env, producer, producersMade, reqLog, respLog, offsets>>

\* self._producer = KafkaProducer(...): the constructor connects, and raises
\* when no broker is reachable.
NewProducer(c) ==
  /\ call[c].pc = "new_producer"
  /\ \/ /\ producer' = "created"
        /\ producersMade' = producersMade + 1
        /\ call' = [call EXCEPT ![c].pc = "send"]
     \/ /\ call' = [call EXCEPT ![c] = [Finish(c, 500, NoMsg) EXCEPT !.fault = "connect"]]
        /\ UNCHANGED <<producer, producersMade>>
  /\ UNCHANGED <<now, env, reqLog, respLog, offsets>>

RequestRecord(c) ==
  Serialize(call[c].cid, [n |-> call[c].arg, text |-> Strip(FormGet(call[c].form))])

\* The producer's sender got a transient error for the record (a request
\* timeout, a leader change) and, retries allowing, transmits it again.  The
\* broker may have written the transmission whose acknowledgement was lost.
Resend(c) ==
  /\ call[c].pc = "send"
  /\ call[c].attempts < Retries
  /\ call' = [call EXCEPT ![c].attempts = @ + 1]
  /\ \/ reqLog' = [reqLog EXCEPT ![RequestTopic(call[c].op)] =
                                   Append(@, RequestRecord(c))]
     \/ UNCHANGED reqLog
  /\ UNCHANGED <<now, env, producer, producersMade, respLog, offsets>>

\* producer.send(...) and future.get(timeout=10): acknowledged, or KafkaError;
\* either way the producer is done with the record.
Send(c) ==
  /\ call[c].pc = "send"
  /\ \/ /\ reqLog' = [reqLog EXCEPT ![RequestTopic(call[c].op)] =
                                      Append(@, RequestRecord(c))]
        /\ call' = [call EXCEPT ![c].pc = "consume", ![c].attempts = 0]
     \/ /\ call' = [call EXCEPT ![c] =
                      IF OnSendError = "raise"
                      THEN [Finish(c, 500, NoMsg) EXCEPT !.fault = "send", !.attempts = 0]
                      ELSE [@ EXCEPT !.fault = "send", !.pc = "consume", !.attempts = 0]]
        /\ UNCHANGED reqLog
  /\ UNCHANGED <<now, env, producer, producersMade, respLog, offsets>>

\* What the handler answers once consume_one is over: 504 on None, the JSON
\* of the response (index_papers: {"status": "ok"}) on a match; an exception
\* leaves the handler and Flask answers 500.
StatusOf(outcome) == CASE outcome = "raised" -> 500
                       [] outcome = "None" -> 504
                       [] OTHER -> 200
BodyOf(o, outcome, msg) == IF outcome = "matched" /\ o # "index" THEN msg ELSE NoMsg

\* consume_one leaves its try block with an outcome ("matched", "None" or
\* "raised"): the finally clause closes the consumer, the locals are gone,
\* and the handler answers.
Return(rec, outcome, msg) ==
  [rec EXCEPT !.closed = IF FinallyCloses(outcome) THEN @ + 1 ELSE @,
              !.ret = outcome, !.retMsg = msg,
              !.waited = now - rec.started,
              !.started = 0, !.deadline = 0, !.pollEnd = 0,
              !.pc = "done", !.status = StatusOf(outcome),
              !.body = BodyOf(rec.op, outcome, msg)]

\* The while test, at the top of the loop: another consumer.poll(timeout_ms=1000)
\* when it holds, the timeout outcome when it does not.
LoopTest(rec) ==
  IF KeepPolling(now, rec.deadline)
  THEN [rec EXCEPT !.pc = "poll", !.pollEnd = now + PollWait]
  ELSE Return(rec, "None", NoMsg)

\* kafka.consume_one(topic=..., correlation_id=..., timeout=int(os.getenv(...))):
\* the arguments are evaluated, then consume_one constructs its KafkaConsumer,
\* computes the deadline and enters the loop.  The first poll joins the
\* consumer group: a group without a position gets the end of the log
\* (auto_offset_reset="latest").
ConsumeOne(c) ==
  /\ call[c].pc = "consume"
  /\ LET t == ParseInt(GetenvTimeout(env))
         entered == [call[c] EXCEPT !.consumeCalls = @ + 1]
         opened == [entered EXCEPT !.opened = @ + 1, !.started = now,
                                   !.deadline = now + Seconds(t.val)]
         polling == KeepPolling(now, opened.deadline)
     IN
     IF ~t.ok
     THEN /\ call' = [call EXCEPT ![c] = [Finish(c, 500, NoMsg) EXCEPT !.fault = "config"]]
          /\ UNCHANGED offsets
     ELSE \/ /\ call' = [call EXCEPT ![c] =
                           [LoopTest(opened) EXCEPT
                              !.joinPos = IF polling THEN Len(Log(c)) ELSE @]]
             /\ offsets' = IF polling /\ OffsetKey(c) \notin DOMAIN offsets
                           THEN offsets @@ (OffsetKey(c) :> StartPosition(Log(c)))
                           ELSE offsets
          \/ /\ call' = [call EXCEPT ![c] =
                           [entered EXCEPT !.fault = "subscribe", !.ret = "raised",
                                           !.pc = "done", !.status = StatusOf("raised")]]
             /\ UNCHANGED offsets
  /\ UNCHANGED <<now, env, producer, producersMade, reqLog, respLog>>

\* poll returns k fetched records, deserialized; the two for loops then look
\* for the first matching one.  A record the deserializer rejects makes poll
\* raise.
PollRecords(c, k) ==
  /\ call[c].pc = "poll"
  /\ k \in 1..Available(c)
  /\ LET pos == offsets[OffsetKey(c)]
         raw == SubSeq(Log(c), pos + 1, pos + k)
         batch == [i \in 1..k |-> Deserialize(raw[i])]
         m == FirstMatch(batch, call[c].cid)
         got == [call[c] EXCEPT !.delivered = @ \o raw]
     IN  IF \E i \in 1..k : DeserializeRaises(raw[i])
         THEN /\ call' = [call EXCEPT ![c] =
                            IF OnPollError = "raise"
                            THEN Return([@ EXCEPT !.fault = "decode"], "raised", NoMsg)
                            ELSE LoopTest([@ EXCEPT !.fault = "decode"])]
              /\ UNCHANGED offsets
         ELSE /\ offsets' = [offsets EXCEPT ![OffsetKey(c)] = pos + k]
              /\ call' = [call EXCEPT ![c] =
                            IF m > 0 THEN Return(got, "matched", batch[m])
                            ELSE LoopTest(got)]
  /\ UNCHANGED <<now, env, producer, producersMade, reqLog, respLog>>

\* poll returns {} after waiting the whole slice for records.
PollEmpty(c) ==
  /\ call[c].pc = "poll"
  /\ Available(c) = 0
  /\ now = call[c].pollEnd
  /\ call' = [call EXCEPT ![c] = LoopTest(@)]
  /\ UNCHANGED <<now, env, producer, producersMade, reqLog, respLog, offsets>>

\* poll raises a KafkaError (broker lost, group coordinator failure).
PollFail(c) ==
  /\ call[c].pc = "poll"
  /\ call' = [call EXCEPT ![c] =
                IF OnPollError = "raise"
                THEN Return([@ EXCEPT !.fault = "poll"], "raised", NoMsg)
                ELSE LoopTest([@ EXCEPT !.fault = "poll"])]
  /\ UNCHANGED <<now, env, producer, producersMade, reqLog, respLog, offsets>>

\* The backend, or any other producer, publishes a record on a response topic.
\* The log is followed from the moment some call has sent its request and is
\* about to read, or is reading, that topic: what was published earlier lies
\* before the position every consumer of the model starts from.
BackendPublish(t, m) ==
  /\ Published < MaxMsgs
  /\ \E c \in Calls : call[c].pc \in {"consume", "poll"} /\ t = ResponseTopic(call[c].op)
  /\ respLog' = [respLog EXCEPT ![t] = Append(@, m)]
  /\ UNCHANGED <<now, env, producer, producersMade, reqLog, offsets, call>>

\* Time passes: only while every handler is waiting (for a request, or in a
\* poll whose slice has not run out) or has finished.  The clock is followed
\* only while some handler is in a poll: nothing else reads it.
Tick ==
  /\ now < MaxNow
  /\ \E c \in Calls : call[c].pc = "poll"
  /\ \A c \in Calls : \/ call[c].pc \in {"idle", "done"}
                      \/ call[c].pc = "poll" /\ now < call[c].pollEnd
  /\ now' = now + 1
  /\ UNCHANGED <<env, producer, producersMade, reqLog, respLog, offsets, call>>

\* One request thread serves one request, of any route and form.
Next ==
  \/ \E o \in Ops : \E f \in Forms(o) : Request("c1", o, f)
  \/ GetProducer("c1")
  \/ NewProducer("c1")
  \/ Resend("c1")
  \/ Send("c1")
  \/ ConsumeOne("c1")
  \/ \E k \in 1..MaxMsgs : PollRecords("c1", k)
  \/ PollEmpty("c1")
  \/ PollFail("c1")
  \/ \E t \in ResponseTopics, m \in WireMessages : BackendPublish(t, m)
  \/ Tick

Spec == Init /\ [][Next]_vars

\* Two request threads serve one valid request each, a term search or a
\* top-N, concurrently, with a response timeout of one second; the backend
\* publishes replies to either call, or a JSON value that is no envelope, and
\* the request topic's broker gives no transient errors.
ConcurrentRequests == {<<"search", Text(<<"g">>)>>, <<"topn", Text(<<" ", "5">>)>>}
ConcurrentMessages == {NonObject} \cup {Envelope(id, "r1") : id \in CorrIds}

InitConcurrent == Init /\ env = Text(<<"1">>)

NextConcurrent ==
  \/ \E c \in Calls, r \in ConcurrentRequests : Request(c, r[1], r[2])
  \/ \E c \in Calls : GetProducer(c)
  \/ \E c \in Calls : NewProducer(c)
  \/ \E c \in Calls : Send(c)
  \/ \E c \in Calls : ConsumeOne(c)
  \/ \E c \in Calls, k \in 1..MaxMsgs : PollRecords(c, k)
  \/ \E c \in Calls : PollEmpty(c)
  \/ \E c \in Calls : PollFail(c)
  \/ \E t \in ResponseTopics, m \in ConcurrentMessages : BackendPublish(t, m)
  \/ Tick

SpecConcurrent == InitConcurrent /\ [][NextConcurrent]_vars

\* One of the request threads under the assumptions of a terminating call: time
\* advances, and each step of the handler, and each broker operation it waits
\* for, comes back (the construction of the producer, the wait for the send's
\* acknowledgement, a poll with records or at the end of its slice).  Nothing
\* is assumed of the backend, of transient errors or of failures.  The
\* response timeout is one that ends within the clock's range; the requests
\* are the valid ones above, the records those above and bytes that are no
\* JSON.
InitLive == Init /\ env # Absent

LiveMessages == {Garbage} \cup ConcurrentMessages

NextLive ==
  \/ \E r \in ConcurrentRequests : Request("c1", r[1], r[2])
  \/ GetProducer("c1")
  \/ NewProducer("c1")
  \/ Resend("c1")
  \/ Send("c1")
  \/ ConsumeOne("c1")
  \/ \E k \in 1..MaxMsgs : PollRecords("c1", k)
  \/ PollEmpty("c1")
  \/ PollFail("c1")
  \/ \E t \in ResponseTopics, m \in LiveMessages : BackendPublish(t, m)
  \/ Tick

PollReturns(c) == (\E k \in 1..MaxMsgs : PollRecords(c, k)) \/ PollEmpty(c)

Fairness ==
  /\ WF_vars(Tick)
  /\ WF_vars(GetProducer("c1"))
  /\ WF_vars(NewProducer("c1"))
  /\ WF_vars(Send("c1"))
  /\ WF_vars(ConsumeOne("c1"))
  /\ WF_vars(PollReturns("c1"))

SpecLive == InitLive /\ [][NextLive]_vars /\ Fairness

\* ------------------------------------------------------------------ claims
InFlight(c) == call[c].pc \notin {"idle", "done"}

RECURSIVE OpenSubscriptions(_)
OpenSubscriptions(S) ==
  IF S = {} THEN 0
  ELSE LET c == CHOOSE x \in S : TRUE
       IN  (call[c].opened - call[c].closed) + OpenSubscriptions(S \ {c})

\* The configured response timeout, in ticks (when it parses).
TimeoutTicks == Seconds(ParseInt(GetenvTimeout(env)).val)

\* C1: whatever is delivered on the response topic, a value consume_one
\* returns for correlation id X is a dict whose correlation_id is X, and it is
\* one of the records the call was handed; records for other ids are only
\* discarded, and a call that returns no message returns none.
C1_ReturnsOnlyAwaitedId ==
  \A c \in Calls :
    /\ call[c].ret = "matched" =>
         /\ call[c].retMsg.dict
         /\ call[c].retMsg.cid = call[c].cid
         /\ \E i \in 1..Len(call[c].delivered) :
              Deserialize(call[c].delivered[i]) = call[c].retMsg
    /\ call[c].ret # "matched" => call[c].retMsg = NoMsg

\* A call returned its own response after it was handed, and discarded, an
\* envelope for another id.
C1_Witness ==
  \E c \in Calls :
    /\ call[c].ret = "matched"
    /\ Len(call[c].delivered) >= 2
    /\ call[c].delivered[1].dict
    /\ call[c].delivered[1].cid \notin {call[c].cid, NoCid}

\* C2: of two calls with distinct correlation ids listening on the same
\* response topic, each one that returns a response returns the one carrying
\* its own id, never the one carrying the other call's id.
C2_NoCrossDelivery ==
  \A c, d \in Calls :
    (/\ c # d
     /\ call[c].cid # NoCid /\ call[d].cid # NoCid
     /\ call[c].op = call[d].op
     /\ call[c].ret = "matched")
    => call[c].retMsg.cid = call[c].cid /\ call[c].retMsg.cid # call[d].cid

\* Both calls, on the same topic, returned their responses, and one of them
\* had been handed the other's response on the way.
C2_Witness ==
  \E c, d \in Calls :
    /\ c # d
    /\ call[c].op = call[d].op
    /\ call[c].ret = "matched" /\ call[d].ret = "matched"
    /\ \E i \in 1..Len(call[c].delivered) : call[c].delivered[i].cid = call[d].cid

\* C3: each call reads through a position of its own: every record published
\* on the topic after the call's consumer got its position, up to that
\* position's present value, was handed to this call, whatever the other
\* listeners read and discarded meanwhile.
C3_OwnReadPosition ==
  \A c \in Calls :
    call[c].joinPos >= 0 =>
      /\ OffsetKey(c) \in DOMAIN offsets
      /\ call[c].delivered = SubSeq(Log(c), call[c].joinPos + 1, offsets[OffsetKey(c)])

\* Two listeners on one topic were both handed the same record, which one of
\* them discarded as not its own and the other returned.
C3_Witness ==
  \E c, d \in Calls :
    /\ c # d
    /\ call[c].op = call[d].op
    /\ call[c].joinPos = call[d].joinPos
    /\ call[c].delivered # <<>> /\ call[d].delivered # <<>>
    /\ call[c].delivered[1] = call[d].delivered[1]
    /\ call[c].delivered[1].cid = call[d].cid
    /\ call[d].ret = "matched"
    /\ call[c].ret # "matched"

\* C4: a call that has ended has closed every subscription it opened, and at
\* any time there are at most as many open subscriptions as calls in flight.
C4_SubscriptionsReleased ==
  /\ \A c \in Calls : ~InFlight(c) => call[c].opened = call[c].closed
  /\ \A c \in Calls : call[c].opened - call[c].closed \in {0, 1}
  /\ OpenSubscriptions(Calls) <= Cardinality({c \in Calls : InFlight(c)})

\* A call ended by a failing poll, its subscription opened and closed.
C4_Witness ==
  \E c \in Calls :
    /\ call[c].pc = "done"
    /\ call[c].fault \in {"poll", "decode"}
    /\ call[c].opened = 1 /\ call[c].closed = 1

\* C5: the timeout outcome is returned no earlier than the deadline (start
\* plus timeout) and no later than one poll slice after it.
C5_TimeoutWindow ==
  \A c \in Calls :
    call[c].ret = "None" =>
      /\ call[c].waited >= TimeoutTicks
      /\ call[c].waited <= TimeoutTicks + PollSlice

\* A call with a timeout of a second timed out strictly after its deadline.
C5_Witness ==
  \E c \in Calls :
    /\ call[c].ret = "None"
    /\ TimeoutTicks > 0
    /\ call[c].waited > TimeoutTicks

\* The inputs C6 names: a top-N count that is no integer, an empty search
\* term, an empty URL.
FailsValidation(o, f) ==
  CASE o = "topn" -> f.present /\ ~ParseInt(f.text).ok
    [] o = "search" -> FormGet(f) = <<>>
    [] o = "index" -> FormGet(f) = <<>>
    [] OTHER -> FALSE

\* C6: a request that fails validation ends with status 400 and neither
\* produce nor consume_one is called for it.
C6_ValidationBeforeBroker ==
  \A c \in Calls :
    (call[c].pc # "idle" /\ FailsValidation(call[c].op, call[c].form)) =>
      /\ call[c].pc = "done"
      /\ call[c].status = 400
      /\ call[c].produceCalls = 0
      /\ call[c].consumeCalls = 0

\* A top-N request with n = "a" was answered 400.
C6_Witness ==
  \E c \in Calls :
    /\ call[c].op = "topn"
    /\ call[c].form = Text(<<"a">>)
    /\ call[c].status = 400

\* C7: a top-N request whose n parses as an integer n <= 0 is rejected with
\* status 400 and nothing is published on the top-N request topic.
C7_NonPositiveRejected ==
  \A c \in Calls :
    (/\ call[c].op = "topn"
     /\ TopnArg(call[c].form).ok
     /\ TopnArg(call[c].form).val <= 0)
    => /\ call[c].pc = "done" => call[c].status = 400
       /\ \A i \in 1..Len(reqLog["topn-request"]) :
            reqLog["topn-request"][i].cid # call[c].cid

\* C8: a record on the response topic that is no response envelope (bytes
\* that are not JSON, a JSON value that is no object, an object without
\* correlation_id) never ends the call and is never returned.
C8_MalformedDiscarded ==
  \A c \in Calls :
    /\ call[c].fault = "decode" => call[c].ret # "raised" /\ call[c].status # 500
    /\ call[c].ret = "matched" => call[c].retMsg.dict /\ call[c].retMsg.cid # NoCid

\* C9: when publishing the request fails the call ends at once with an error
\* and consume_one is not called: no subscription is opened.
C9_PublishFailureEndsCall ==
  \A c \in Calls :
    call[c].fault \in {"connect", "send"} =>
      /\ call[c].pc = "done"
      /\ call[c].status = 500
      /\ call[c].consumeCalls = 0
      /\ call[c].opened = 0

\* A send failed and the call is over.
C9_Witness ==
  \E c \in Calls : call[c].fault = "send" /\ call[c].pc = "done"

\* C10: when the subscription or a poll fails, consume_one raises: it does
\* not return None, and the caller answers 500, not the 504 of a timeout.
C10_BrokerErrorIsNotTimeout ==
  \A c \in Calls :
    call[c].fault \in {"subscribe", "poll", "decode"} =>
      /\ call[c].ret = "raised"
      /\ call[c].pc = "done"
      /\ call[c].status = 500

\* A poll failed after the subscription was opened, and the caller answered 500.
C10_Witness ==
  \E c \in Calls :
    /\ call[c].fault = "poll"
    /\ call[c].opened = 1
    /\ call[c].status = 500

\* C11: a call accepts at most one response: the value consume_one returns is
\* the first record handed to it that carries its id, and a call that is
\* still reading has been handed no record carrying its id (it stopped at
\* the first one), so a later duplicate is never returned.
C11_FirstMatchOnly ==
  \A c \in Calls :
    /\ call[c].ret = "matched" =>
         \E i \in 1..Len(call[c].delivered) :
           /\ Matches(Deserialize(call[c].delivered[i]), call[c].cid)
           /\ \A j \in 1..(i - 1) : ~Matches(Deserialize(call[c].delivered[j]), call[c].cid)
           /\ call[c].retMsg = Deserialize(call[c].delivered[i])
    /\ call[c].ret # "matched" =>
         \A i \in 1..Len(call[c].delivered) :
           ~Matches(Deserialize(call[c].delivered[i]), call[c].cid)

\* The response and a duplicate of it with other content were both published;
\* the call returned the first.
C11_Witness ==
  \E c \in Calls :
    /\ call[c].ret = "matched"
    /\ Len(Log(c)) = 2
    /\ Log(c)[1].cid = call[c].cid /\ Log(c)[2].cid = call[c].cid
    /\ Log(c)[1] # Log(c)[2]
    /\ Len(call[c].delivered) = 2
    /\ call[c].retMsg = Deserialize(Log(c)[1])

\* C12: for every route, when consume_one returns a matched envelope the
\* handler answers 200 with that envelope as its body, unchanged.
C12_MatchedPayloadSurfaced ==
  \A c \in Calls :
    (call[c].pc = "done" /\ call[c].ret = "matched") =>
      /\ call[c].status = 200
      /\ call[c].body = call[c].retMsg

\* C14: configuration is validated at start, so no call that is under way
\* fails because of a configuration value: no handler that has published its
\* request ends with an error raised while reading KAFKA_RESPONSE_TIMEOUT.
C14_NoConfigFailureInCall ==
  \A c \in Calls :
    call[c].produceCalls > 0 => ~(call[c].fault = "config" /\ call[c].status = 500)

\* C15: a call publishes its request before it subscribes, and its
\* subscription hands it only records published after it was established: a
\* reply published in between is never observed.
C15_SubscribesAfterPublish ==
  \A c \in Calls :
    /\ call[c].consumeCalls > 0 =>
         \E i \in 1..Len(reqLog[RequestTopic(call[c].op)]) :
           reqLog[RequestTopic(call[c].op)][i].cid = call[c].cid
    /\ call[c].joinPos >= 0 =>
         /\ call[c].joinPos + Len(call[c].delivered) <= Len(Log(c))
         /\ \A i \in 1..Len(call[c].delivered) :
              call[c].delivered[i] = Log(c)[call[c].joinPos + i]
    /\ call[c].ret = "matched" =>
         \E i \in (call[c].joinPos + 1)..Len(Log(c)) :
           Matches(Deserialize(Log(c)[i]), call[c].cid)

\* The spurious timeout: the reply was published after the request and
\* before the subscription was established, and the call answered 504.
C15_Witness ==
  \E c \in Calls :
    /\ call[c].ret = "None"
    /\ call[c].status = 504
    /\ call[c].joinPos >= 1
    /\ \E i \in 1..call[c].joinPos : Matches(Deserialize(Log(c)[i]), call[c].cid)
    /\ \E i \in 1..Len(reqLog[RequestTopic(call[c].op)]) :
         reqLog[RequestTopic(call[c].op)][i].cid = call[c].cid

\* C16: no automatic retries.  A call's request record is never transmitted
\* again, the record is on the request topic at most once, produce is entered
\* at most once, at most one subscription is opened, and a call that has
\* ended holds no open subscription.
C16_NoAutomaticRetries ==
  \A c \in Calls :
    /\ call[c].attempts = 0
    /\ call[c].op \in Ops =>
       Cardinality({i \in 1..Len(reqLog[RequestTopic(call[c].op)]) :
                      reqLog[RequestTopic(call[c].op)][i].cid = call[c].cid}) <= 1
    /\ call[c].produceCalls <= 1
    /\ call[c].opened <= 1
    /\ call[c].pc = "done" => call[c].closed = call[c].opened

\* C17: every call that was accepted for processing ends and answers its
\* caller, whatever is or is not published on the response topic.
C17_EveryCallReturns ==
  \A c \in Calls : InFlight(c) ~> (call[c].pc = "done")

\* A call that ended by the timeout although records, none of them its reply,
\* kept arriving on its subscription.
C17_Witness ==
  \E c \in Calls :
    /\ call[c].pc = "done"
    /\ call[c].ret = "None"
    /\ Len(call[c].delivered) = MaxMsgs
    /\ call[c].closed = 1

\* C18: a KafkaClient constructs at most one KafkaProducer, also when the
\* first calls of produce come from two request threads at once.
C18_AtMostOneProducer ==
  /\ producersMade <= 1
  /\ producer = "None" => producersMade = 0

\* C19: once a record carrying the awaited correlation id is available on the
\* call's subscription (published after the subscription got its position)
\* while the deadline has not passed, the call never ends with the timeout
\* outcome.
C19_TimelyReplyReturned ==
  \A c \in Calls :
    [](( /\ call[c].pc = "poll"
         /\ now < call[c].deadline
         /\ \E i \in (call[c].joinPos + 1)..Len(Log(c)) :
              Matches(Deserialize(Log(c)[i]), call[c].cid) )
       => [](call[c].ret # "None"))

\* C20: a call that answered with the timeout was handed no record carrying
\* its correlation id by any of its polls, and every record it was handed
\* is a record it has consumed from its subscription.
C20_TimeoutDropsNoMatch ==
  \A c \in Calls :
    (call[c].pc = "done" /\ call[c].status = 504) =>
      /\ {i \in 1..Len(call[c].delivered) :
            Matches(Deserialize(call[c].delivered[i]), call[c].cid)} = {}
      /\ call[c].joinPos >= 0 =>
           offsets[OffsetKey(c)] = call[c].joinPos + Len(call[c].delivered)

\* A reply handed over by a poll that ended after the deadline had passed,
\* behind a record that is not the reply, is still returned.
C20_Witness ==
  \E c \in Calls :
    /\ call[c].ret = "matched"
    /\ TimeoutTicks > 0
    /\ call[c].waited > TimeoutTicks
    /\ Len(call[c].delivered) >= 2
    /\ ~Matches(Deserialize(call[c].delivered[1]), call[c].cid)

====
